---- MODULE Spec2Model ----
(***************************************************************************)
(* Model of the exclusive command scheduler of the Booster T1 command      *)
(* server: BoosterT1Commander (robot_commander/booster_t1_robot.py) driven *)
(* by the FastAPI handlers of main.py on one asyncio event loop.           *)
(*                                                                         *)
(* Concurrency is asyncio's: one thread, and a coroutine runs without      *)
(* interruption from one await that suspends to the next.  Every action    *)
(* below is one such uninterrupted run.  Tasks made runnable (create_task, *)
(* a lock waiter woken, a sleep timer expired) are appended to the loop's  *)
(* FIFO `ready` queue and run in that order; request handlers arrive from  *)
(* the network at any point between two runs.                              *)
(*                                                                         *)
(* Durations are in tenths of a second.  Velocities are in tenths of a     *)
(* unit per second.                                                        *)
(***************************************************************************)
EXTENDS Naturals, Integers, Sequences, FiniteSets, TLC

\* Number of submit requests a behaviour may contain (ids 1..MaxSubmits).
MaxSubmits == 4

\* Number of calls made on the commander factory in a behaviour.
MaxCalls == 3

\* The same, in the specifications with the wider environments (driver
\* failures and every kind of wave-hand request; the mock commander).
MaxWideSubmits == 3

\* asyncio.Queue(maxsize=1)
maxsize == 1

\* Field bounds and default of WaveHandRequest.duration: ge=0.1, le=10.0, default=1.0
MinDuration == 1
MaxDuration == 100
DefaultDuration == 10

\* asyncio.sleep(1) of the movement commands
MoveHold == 10

\* parameters.get("duration", 1) of _execute_wave_hand
DefaultHold == 10

Kinds == {"wave_hand", "move_forward", "move_backward", "turn_left", "turn_right"}

\* Durations the clients send to POST /wave-hand.
RequestDurations == {1}

Ids == 1..MaxSubmits

VARIABLES
    locked,         \* busy_lock._locked
    waiters,        \* busy_lock._waiters: tasks suspended in acquire(), FIFO
    command_queue,  \* command_queue: ids of the (command, parameters) pairs held
    ready,          \* the event loop's queue of runnable tasks, FIFO
    task,           \* task[t]: the background task created by submission t
    robot,          \* the last command the driver received on each channel
    eff,            \* eff[c]: times the physical effect of command c was issued
    neu,            \* neu[c]: times the neutralizing effect of command c was issued
    hist,           \* hist[c]: submission c as it was made and what became of it
    burst,          \* submissions that found the robot busy since the queue was last emptied
    response,       \* the last response a handler returned
    errlog,         \* the last line written by logger.error
    env,            \* the environment: commander selected, requests sent, driver results
    factory         \* robot_commander_factory and the calls made on it

vars == <<locked, waiters, command_queue, ready, task, robot, eff, neu, hist,
          burst, response, errlog, env, factory>>

NoTask == [pc |-> "none", cmd |-> 0, hold |-> 0]

\* {} as passed by the movement handlers; {"duration": d} by wave_hand
NoParameters == [k \in {} |-> 0]
DurationParameters(d) == [k \in {"duration"} |-> d]

(***************************************************************************)
(* The environment of a behaviour.  commander: the RobotCommander the      *)
(* factory selected at start-up.  submits: how many submit requests are    *)
(* made.  requests: the bodies sent to POST /wave-hand (given: whether a   *)
(* duration is present).  results: what the driver calls may return.       *)
(***************************************************************************)
WaveRequest(d) == [given |-> TRUE, duration |-> d]

NoWaveRequest == [given |-> FALSE, duration |-> 0]

\* The real robot, clients sending valid durations, a driver that reports success.
CoreEnv ==
    [commander |-> "booster_t1", submits |-> MaxSubmits,
     requests |-> {WaveRequest(d) : d \in RequestDurations}, results |-> {0}]

\* Clients sending any body, and a driver that may report a failure on any call.
WideEnv ==
    [commander |-> "booster_t1", submits |-> MaxWideSubmits,
     requests |-> {NoWaveRequest} \cup
                  {WaveRequest(d) : d \in {MinDuration - 1, MinDuration,
                                           MaxDuration, MaxDuration + 1}},
     results |-> {0, 1}]

\* ROBOT is not "booster-t1": the factory selects MockRobotCommander.
MockEnv ==
    [commander |-> "mock", submits |-> MaxWideSubmits,
     requests |-> {WaveRequest(d) : d \in RequestDurations}, results |-> {0}]

(***************************************************************************)
(* The actuator driver: B1LocoClient.Move and B1LocoClient.WaveHand.       *)
(***************************************************************************)
Move(r, x, y, z) == [r EXCEPT !.vel = <<x, y, z>>]

WaveHand(r, action) == [r EXCEPT !.hand = action]

\* The line logged when the first driver call of _execute_* returns non-zero.
EffectFailure(kind) ==
    CASE kind = "wave_hand"     -> "Failed to wave hand"
      [] kind = "move_forward"  -> "Failed to move forward"
      [] kind = "move_backward" -> "Failed to move backward"
      [] kind = "turn_left"     -> "Failed to turn left"
      [] kind = "turn_right"    -> "Failed to turn right"

\* The line logged when the driver call of cancel_wave_hand / _cancel_move fails.
NeutralizingFailure(kind) ==
    IF kind = "wave_hand" THEN "Failed to cancel waved hand" ELSE "Failed to cancel move"

\* The first driver call of each _execute_* method.
PhysicalEffect(r, kind) ==
    CASE kind = "wave_hand"     -> WaveHand(r, "kHandOpen")
      [] kind = "move_forward"  -> Move(r, 5, 0, 0)
      [] kind = "move_backward" -> Move(r, -2, 0, 0)
      [] kind = "turn_left"     -> Move(r, 0, 0, 2)
      [] kind = "turn_right"    -> Move(r, 0, 0, -2)

\* Mutant: the cancel makes no driver call.
CancelWaveHandSkipped(r) == r

\* BoosterT1Commander.cancel_wave_hand
CancelWaveHandCall(r) == WaveHand(r, "kHandClose")

\* Mutant: the movement is not stopped.
cancel_move_skipped(r) == r

\* BoosterT1Commander._cancel_move
cancel_move(r) == Move(r, 0, 0, 0)

\* The driver call after the sleep of each _execute_* method.
NeutralizingEffect(r, kind) ==
    IF kind = "wave_hand" THEN CancelWaveHandCall(r) ELSE cancel_move(r)

\* The argument of asyncio.sleep in each _execute_* method.
HoldDuration(kind, parameters) ==
    IF kind = "wave_hand"
    THEN IF "duration" \in DOMAIN parameters THEN parameters["duration"] ELSE DefaultHold
    ELSE MoveHold

(***************************************************************************)
(* The scheduler state handled by the coroutines, as one record.           *)
(***************************************************************************)
St == [locked |-> locked, waiters |-> waiters, command_queue |-> command_queue,
       ready |-> ready, task |-> task, robot |-> robot, eff |-> eff, neu |-> neu,
       errlog |-> errlog, rc |-> <<>>]

\* The driver calls made from s on return rc[1], rc[2], ... in turn.
Driver(s, rc) == [s EXCEPT !.rc = rc]

\* `result = self.robot_client....(...)`: what the call at hand returns.
Returned(s) == IF s.rc = <<>> THEN 0 ELSE Head(s.rc)

\* Mutant: a failed call raises out of the `async with` block, which unlocks.
LogIfFailedRaise(s, line) ==
    [s EXCEPT !.errlog = IF Returned(s) # 0 THEN line ELSE @,
              !.locked = IF Returned(s) # 0 THEN FALSE ELSE @,
              !.rc = IF @ = <<>> THEN @ ELSE Tail(@)]

\* `if result != 0: self.logger.error(...)`: a failure is logged, nothing else.
LogIfFailed(s, line) ==
    [s EXCEPT !.errlog = IF Returned(s) # 0 THEN line ELSE @,
              !.rc = IF @ = <<>> THEN @ ELSE Tail(@)]

\* The step ends in state s (bound once, so that s is computed once per step).
Commit(s) ==
    \E x \in {s} :
        /\ locked' = x.locked
        /\ waiters' = x.waiters
        /\ command_queue' = x.command_queue
        /\ ready' = x.ready
        /\ task' = x.task
        /\ robot' = x.robot
        /\ eff' = x.eff
        /\ neu' = x.neu
        /\ errlog' = x.errlog
        /\ UNCHANGED <<env, factory>>

\* Mutant: busy as long as some execution has been created and is not over.
busyByTasks(s) == \E t \in Ids : s.task[t].pc \notin {"none", "done"}

\* BoosterT1Commander.busy
busy(s) == s.locked

\* Mutant: the capacity test is off by one.
QueueFullOffByOne(q) == Len(q) > maxsize

\* asyncio.Queue.full: the queue holds maxsize items.
QueueFull(q) == Len(q) >= maxsize

\* Mutant: the queue is unbounded.
put_nowait_unbounded(q, item) == Append(q, item)

\* Mutant: a new command replaces the occupant.
put_nowait_replace(q, item) == <<item>>

\* put_nowait inside try/except QueueFull: a full queue discards the item.
put_nowait(q, item) == IF QueueFull(q) THEN q ELSE Append(q, item)

\* Mutant: acquire does not look at the lock being held.
LockFreeIgnoresHolder(s) == s.waiters = <<>>

\* asyncio.Lock.acquire takes the lock at once only if it is free and nobody waits.
LockFree(s) == ~s.locked /\ s.waiters = <<>>

\* The body of `async with self.busy_lock` up to the sleep: the driver call,
\* then the task suspends in asyncio.sleep holding the lock.
\* (MockRobotCommander has the same body without the driver call.)
LockedSection(s, t, c) ==
    LET s1 == [s EXCEPT !.locked = TRUE,
                        !.eff[c] = @ + 1,
                        !.task[t] = [pc |-> "sleeping", cmd |-> c,
                                     hold |-> HoldDuration(hist[c].kind,
                                                           hist[c].parameters)]]
    IN  IF env.commander = "mock"
        THEN s1
        ELSE LogIfFailed([s1 EXCEPT !.robot = PhysicalEffect(@, hist[c].kind)],
                         EffectFailure(hist[c].kind))

\* After the sleep: cancel_wave_hand() / _cancel_move(), still inside the lock.
Neutralize(s, c) ==
    LET s1 == [s EXCEPT !.neu[c] = @ + 1] IN
    IF env.commander = "mock"
    THEN s1
    ELSE LogIfFailed([s1 EXCEPT !.robot = NeutralizingEffect(@, hist[c].kind)],
                     NeutralizingFailure(hist[c].kind))

\* _execute_*(parameters) from its first line: enter the lock or wait for it.
Execute(s, t, c) ==
    IF LockFree(s)
    THEN LockedSection(s, t, c)
    ELSE [s EXCEPT !.waiters = Append(@, t),
                   !.task[t] = [pc |-> "waiting", cmd |-> c, hold |-> 0]]

\* Mutant: release unlocks without waking anybody.
ReleaseNoWake(s) == [s EXCEPT !.locked = FALSE]

\* Mutant: release wakes the waiter that came last.
ReleaseWakesLast(s) ==
    LET s1 == [s EXCEPT !.locked = FALSE]
        w  == s1.waiters
    IN  IF w # <<>> /\ s1.task[w[Len(w)]].pc = "waiting"
        THEN [s1 EXCEPT !.task[w[Len(w)]].pc = "woken",
                        !.ready = Append(@, w[Len(w)])]
        ELSE s1

\* asyncio.Lock.release: unlock and wake the first waiter.
Release(s) ==
    LET s1 == [s EXCEPT !.locked = FALSE] IN
    IF s1.waiters # <<>> /\ s1.task[Head(s1.waiters)].pc = "waiting"
    THEN [s1 EXCEPT !.task[Head(s1.waiters)].pc = "woken",
                    !.ready = Append(@, Head(s1.waiters))]
    ELSE s1

\* Mutant: the head of the queue is executed but left in the queue.
process_next_command_peek(s, t) ==
    IF s.command_queue # <<>>
    THEN [s EXCEPT !.eff[Head(s.command_queue)] = @ + 1,
                   !.locked = TRUE,
                   !.task[t] = [pc |-> "sleeping", cmd |-> Head(s.command_queue),
                                hold |-> MoveHold]]
    ELSE [s EXCEPT !.task[t] = [pc |-> "done", cmd |-> 0, hold |-> 0]]

\* Mutant: the removed command is handed to a new task and the flow ends.
process_next_command_spawn(s, t) ==
    IF s.command_queue # <<>>
    THEN [s EXCEPT !.command_queue = Tail(@),
                   !.task[t] = [pc |-> "done", cmd |-> 0, hold |-> 0],
                   !.task[Head(s.command_queue)] =
                       [pc |-> "created", cmd |-> Head(s.command_queue), hold |-> 0],
                   !.ready = Append(@, Head(s.command_queue))]
    ELSE [s EXCEPT !.task[t] = [pc |-> "done", cmd |-> 0, hold |-> 0]]

\* Mutant: the flow ends without looking at the queue.
process_next_command_skip(s, t) ==
    [s EXCEPT !.task[t] = [pc |-> "done", cmd |-> 0, hold |-> 0]]

\* _process_next_command, awaited by task t after it released the lock.
process_next_command(s, t) ==
    IF s.command_queue # <<>>
    THEN Execute([s EXCEPT !.command_queue = Tail(@)], t, Head(s.command_queue))
    ELSE [s EXCEPT !.task[t] = [pc |-> "done", cmd |-> 0, hold |-> 0]]

\* Mutant: the coroutine object is made but never scheduled.
create_task_unscheduled(s, t) ==
    [s EXCEPT !.task[t] = [pc |-> "created", cmd |-> t, hold |-> 0]]

\* asyncio.create_task: the new task is scheduled, it has not run yet.
create_task(s, t) ==
    [s EXCEPT !.task[t] = [pc |-> "created", cmd |-> t, hold |-> 0],
              !.ready = Append(@, t)]

\* Mutant: a submission that finds the robot busy waits for the lock itself.
AdmitInline(s, c) ==
    IF busy(s)
    THEN [s EXCEPT !.waiters = Append(@, c),
                   !.task[c] = [pc |-> "waiting", cmd |-> c, hold |-> 0]]
    ELSE create_task(s, c)

\* Mutant: every submission goes to the queue, busy or not.
AdmitAlwaysQueue(s, c) == [s EXCEPT !.command_queue = put_nowait(@, c)]

\* The body shared by wave_hand, move_forward, move_backward, turn_left, turn_right.
Admit(s, c) ==
    IF busy(s)
    THEN [s EXCEPT !.command_queue = put_nowait(@, c)]
    ELSE create_task(s, c)

Outcome(s) ==
    IF busy(s)
    THEN IF QueueFull(s.command_queue) THEN "dropped" ELSE "queued"
    ELSE "started"

\* Mutant: the acknowledgement tells whether the robot was busy.
CommandResponseLeaky(kind, d) ==
    [success |-> TRUE,
     message |-> IF locked THEN "Robot is busy" ELSE "Started",
     seconds |-> d]

\* CommandResponse returned by the handlers of main.py.
CommandResponse(kind, d) ==
    [success |-> TRUE,
     message |-> CASE kind = "wave_hand"     -> "Waving hand for"
                   [] kind = "move_forward"  -> "Moving forward"
                   [] kind = "move_backward" -> "Moving backward"
                   [] kind = "turn_left"     -> "Turning left"
                   [] kind = "turn_right"    -> "Turning right"
                   [] kind = "cancel"        -> "Cancelled wave hand",
     seconds |-> d]

\* What FastAPI answers when the handler cannot run or raises: 422 for a body
\* that fails validation, 500 for an exception.
ErrorResponse(status) == [success |-> FALSE, message |-> status, seconds |-> 0]

\* WaveHandRequest: the duration of a request body, the default when absent.
RequestDuration(req) == IF req.given THEN req.duration ELSE DefaultDuration

\* Mutant: the upper Field constraint is missing.
ValidDurationNoUpper(d) == MinDuration <= d

\* The Field constraints ge / le of WaveHandRequest.duration.
ValidDuration(d) == MinDuration <= d /\ d <= MaxDuration

(***************************************************************************)
(* RobotCommanderFactory.  A commander instance is its creation number and *)
(* its kind; None has number 0.  call[k] is a call of using_booster_t1,    *)
(* using_mock or get_robot_commander in progress on some thread.           *)
(***************************************************************************)
Calls == 1..MaxCalls

None == [id |-> 0, kind |-> "none"]

NoCall == [op |-> "none", pc |-> "idle", result |-> None]

\* RobotCommanderFactory.__init__, in a process whose ROBOT variable is r.
NewFactory(r) ==
    [ROBOT |-> r, robot_commander |-> None, made |-> 0,
     call |-> [k \in Calls |-> NoCall]]

\* The commander all requests of the scheduler model are served by.
Selected(kind) ==
    [ROBOT |-> IF kind = "booster_t1" THEN "booster-t1" ELSE "unset",
     robot_commander |-> [id |-> 1, kind |-> kind], made |-> 1,
     call |-> [k \in Calls |-> NoCall]]

SchedulerInit(e) ==
    /\ locked = FALSE
    /\ waiters = <<>>
    /\ command_queue = <<>>
    /\ ready = <<>>
    /\ task = [t \in Ids |-> NoTask]
    /\ robot = [hand |-> "none", vel |-> "none"]
    /\ eff = [c \in Ids |-> 0]
    /\ neu = [c \in Ids |-> 0]
    /\ hist = <<>>
    /\ burst = <<>>
    /\ response = [success |-> TRUE, message |-> "none", seconds |-> 0]
    /\ errlog = "none"
    /\ env = e

InitWith(e) == SchedulerInit(e) /\ factory = Selected(e.commander)

Init == InitWith(CoreEnv)

(***************************************************************************)
(* Request handlers: each calls one commander method and returns.          *)
(***************************************************************************)
Submit(kind, parameters, d) ==
    /\ Len(hist) < env.submits
    /\ LET c == Len(hist) + 1 IN
        /\ Commit(Admit(St, c))
        /\ hist' = Append(hist, [kind |-> kind, parameters |-> parameters,
                                 outcome |-> Outcome(St),
                                 response |-> CommandResponse(kind, d)])
        /\ burst' = IF busy(St) THEN Append(burst, c) ELSE burst
    /\ response' = CommandResponse(kind, d)

\* The request never reaches the commander (422) or the call raises (500).
Refuse(kind, status) ==
    /\ Len(hist) < env.submits
    /\ hist' = Append(hist, [kind |-> kind, parameters |-> NoParameters,
                             outcome |-> status,
                             response |-> ErrorResponse(status)])
    /\ response' = ErrorResponse(status)
    /\ UNCHANGED <<locked, waiters, command_queue, ready, task, robot, eff, neu,
                   burst, errlog, env, factory>>

wave_hand ==
    \E req \in env.requests :
        LET d == RequestDuration(req) IN
        IF ValidDuration(d)
        THEN Submit("wave_hand", DurationParameters(d), d)
        ELSE Refuse("wave_hand", "422")

move_forward == Submit("move_forward", NoParameters, 0)

move_backward == Submit("move_backward", NoParameters, 0)

\* MockRobotCommander.turn_left(self) takes no `parameters`: the handler's
\* call turn_left(parameters={}) raises TypeError there.
turn_left ==
    IF env.commander = "mock"
    THEN Refuse("turn_left", "500")
    ELSE Submit("turn_left", NoParameters, 0)

turn_right == Submit("turn_right", NoParameters, 0)

\* Mutant: the cancel also ends the sleep of a wave-hand execution in its hold.
CancelResultInterrupts(rc) ==
    LET s1 == [St EXCEPT !.robot = CancelWaveHandCall(@)]
        H  == {t \in Ids : task[t].pc = "sleeping"}
    IN  IF H = {} THEN s1
        ELSE LET t == CHOOSE t \in H : TRUE
             IN  [s1 EXCEPT !.task[t].pc = "elapsed", !.ready = Append(@, t)]

\* cancel_wave_hand of the commander, called by the handler without any lock.
CancelResult(rc) ==
    IF env.commander = "mock"
    THEN St
    ELSE LogIfFailed([Driver(St, rc) EXCEPT !.robot = CancelWaveHandCall(@)],
                     NeutralizingFailure("wave_hand"))

cancel_wave_hand ==
    /\ \E r \in env.results : Commit(CancelResult(<<r>>))
    /\ response' = CommandResponse("cancel", 0)
    /\ UNCHANGED <<hist, burst>>

get_status ==
    /\ response' = [robot_name |-> env.commander, is_busy |-> busy(St)]
    /\ UNCHANGED <<locked, waiters, command_queue, ready, task, robot, eff, neu,
                   hist, burst, errlog, env, factory>>

(***************************************************************************)
(* The event loop runs the task at the head of `ready`.                    *)
(***************************************************************************)
Dequeue(s) == [s EXCEPT !.ready = Tail(@)]

\* A task made by create_task runs for the first time.
StartResult(t, rc) == Execute(Driver(Dequeue(St), rc), t, task[t].cmd)

ExecuteStart(t) ==
    /\ ready # <<>> /\ Head(ready) = t
    /\ task[t].pc = "created"
    /\ \E r \in env.results : Commit(StartResult(t, <<r>>))
    /\ UNCHANGED <<hist, burst, response>>

\* A waiter woken by release() resumes inside acquire() and takes the lock.
GrantResult(t, rc) ==
    LockedSection([Driver(Dequeue(St), rc) EXCEPT
                       !.waiters = SelectSeq(@, LAMBDA w : w # t)],
                  t, task[t].cmd)

LockGranted(t) ==
    /\ ready # <<>> /\ Head(ready) = t
    /\ task[t].pc = "woken"
    /\ \E r \in env.results : Commit(GrantResult(t, <<r>>))
    /\ UNCHANGED <<hist, burst, response>>

\* The sleep of the task holding the lock runs out: its timer makes it runnable.
SleepElapsed(t) ==
    /\ task[t].pc = "sleeping"
    /\ task' = [task EXCEPT ![t].pc = "elapsed"]
    /\ ready' = Append(ready, t)
    /\ UNCHANGED <<locked, waiters, command_queue, robot, eff, neu, hist, burst,
                   response, errlog, env, factory>>

\* After the sleep: neutralizing effect, release, _process_next_command.
FinishResult(t, rc) ==
    process_next_command(
        Release(Neutralize(Driver(Dequeue(St), rc), task[t].cmd)), t)

ExecuteFinish(t) ==
    /\ ready # <<>> /\ Head(ready) = t
    /\ task[t].pc = "elapsed"
    /\ \E r1, r2 \in env.results : Commit(FinishResult(t, <<r1, r2>>))
    /\ burst' = IF command_queue # <<>> THEN <<>> ELSE burst
    /\ UNCHANGED <<hist, response>>

Next ==
    \/ wave_hand
    \/ move_forward
    \/ move_backward
    \/ turn_left
    \/ turn_right
    \/ cancel_wave_hand
    \/ get_status
    \/ \E t \in Ids : ExecuteStart(t)
    \/ \E t \in Ids : LockGranted(t)
    \/ \E t \in Ids : SleepElapsed(t)
    \/ \E t \in Ids : ExecuteFinish(t)

Spec == Init /\ [][Next]_vars

\* The event loop runs every runnable task, and every sleep runs out.
LoopStep == \E t \in Ids : ExecuteStart(t) \/ LockGranted(t) \/ ExecuteFinish(t)

TimerStep == \E t \in Ids : SleepElapsed(t)

FairSpec == Spec /\ WF_vars(LoopStep) /\ WF_vars(TimerStep)

\* The same program with driver failures and every kind of wave-hand request.
WideSpec == InitWith(WideEnv) /\ [][Next]_vars

\* The same front-end with MockRobotCommander selected.
MockSpec == InitWith(MockEnv) /\ [][Next]_vars

(***************************************************************************)
(* The factory as the server calls it.  `__main__` calls using_booster_t1  *)
(* or using_mock according to ROBOT; every request resolves its dependency *)
(* robot_commander(), a plain function, which the framework runs on a      *)
(* worker thread.  Threads interleave between the steps below: the test    *)
(* of self.robot_commander, the construction with the assignment, and the  *)
(* read of the attribute that is returned.                                 *)
(***************************************************************************)
\* os.getenv("ROBOT") == "booster-t1" selects the real robot, anything else the mock.
KindOf(r) == IF r = "booster-t1" THEN "booster_t1" ELSE "mock"

UsingOp(r) == IF r = "booster-t1" THEN "using_booster_t1" ELSE "using_mock"

FactoryFrame ==
    UNCHANGED <<locked, waiters, command_queue, ready, task, robot, eff, neu,
                hist, burst, response, errlog, env>>

\* A call is made: using_* by `__main__`, once and before the server runs;
\* get_robot_commander by the requests, at any time after that.
BeginCall(k, op) ==
    /\ factory.call[k].pc = "idle"
    /\ IF op = "get_robot_commander"
       THEN \A j \in Calls : \/ factory.call[j].op \in {"none", "get_robot_commander"}
                              \/ factory.call[j].pc = "done"
       ELSE \A j \in Calls : factory.call[j].pc = "idle"
    /\ factory' = [factory EXCEPT
                     !.call[k] = [op |-> op, result |-> None,
                                  pc |-> IF op = "get_robot_commander"
                                         THEN "get" ELSE "using"]]
    /\ FactoryFrame

\* get_robot_commander: `if self.robot_commander is not None: return ...`,
\* otherwise using_booster_t1() or using_mock() is entered.
get_robot_commander(k) ==
    /\ factory.call[k].pc = "get"
    /\ factory' = IF factory.robot_commander # None
                  THEN [factory EXCEPT !.call[k].pc = "done",
                                       !.call[k].result = factory.robot_commander]
                  ELSE [factory EXCEPT !.call[k].pc = "using"]
    /\ FactoryFrame

\* The test of using_*: `if self.robot_commander is None or not isinstance(...)`.
using_test(k) ==
    /\ factory.call[k].pc = "using"
    /\ factory' = IF \/ factory.robot_commander = None
                     \/ factory.robot_commander.kind # KindOf(factory.ROBOT)
                  THEN [factory EXCEPT !.call[k].pc = "construct"]
                  ELSE [factory EXCEPT !.call[k].pc = "return"]
    /\ FactoryFrame

\* using_*: `self.robot_commander = BoosterT1Commander(...)` / MockRobotCommander(...).
using_construct(k) ==
    /\ factory.call[k].pc = "construct"
    /\ factory' = [factory EXCEPT
                     !.made = @ + 1,
                     !.robot_commander = [id |-> factory.made + 1,
                                          kind |-> KindOf(factory.ROBOT)],
                     !.call[k].pc = "return"]
    /\ FactoryFrame

\* `return self`, and in get_robot_commander the read `.robot_commander` of the result.
using_return(k) ==
    /\ factory.call[k].pc = "return"
    /\ factory' = [factory EXCEPT
                     !.call[k].pc = "done",
                     !.call[k].result = IF factory.call[k].op = "get_robot_commander"
                                        THEN factory.robot_commander ELSE None]
    /\ FactoryFrame

FactoryInit ==
    \E r \in {"booster-t1", "unset"} :
        /\ SchedulerInit(IF r = "booster-t1" THEN CoreEnv ELSE MockEnv)
        /\ factory = NewFactory(r)

FactoryNext ==
    \/ \E k \in Calls : BeginCall(k, "get_robot_commander")
    \/ \E k \in Calls : BeginCall(k, UsingOp(factory.ROBOT))
    \/ \E k \in Calls : get_robot_commander(k)
    \/ \E k \in Calls : using_test(k)
    \/ \E k \in Calls : using_construct(k)
    \/ \E k \in Calls : using_return(k)

\* The factory of one server process, called from `__main__` and from requests.
FactorySpec == FactoryInit /\ [][FactoryNext]_vars

(***************************************************************************)
(* Vocabulary of the properties.                                           *)
(***************************************************************************)
Submitted == 1..Len(hist)

\* Tasks inside `async with self.busy_lock`: effect issued, lock not yet released.
InLockedSection == {t \in Ids : task[t].pc \in {"sleeping", "elapsed"}}

\* Tasks started that have not yet entered the lock.
NotYetLocked == {t \in Ids : task[t].pc \in {"created", "waiting", "woken"}}

LiveTasks == InLockedSection \cup NotYetLocked

\* The step is a submit call (it is the call of submission Len(hist')).
IsSubmitStep == Len(hist') = Len(hist) + 1

\* C1: at most one background execution unit is inside its lock-held section
\* (physical effect, hold, neutralizing effect) at any instant.
MutualExclusion ==
    /\ Cardinality(InLockedSection) <= 1
    /\ InLockedSection # {} => locked

\* A unit holds the lock while a second unit started by another submit waits for it.
MutualExclusionWitness ==
    \E t \in InLockedSection : \E u \in Ids : u # t /\ task[u].pc = "waiting"

\* C2: two submit calls never both observe Idle and both start a background
\* execution unit: at most one started unit is unfinished at any instant.
NoDoubleStart == Cardinality(LiveTasks) <= 1

\* C3: the commands that will still execute but have not begun their physical
\* effect (the Pending Slot occupant plus the units waiting for the lock) are at most 1.
BoundedDeferral == Len(command_queue) + Cardinality(NotYetLocked) <= 1

\* C4: the Pending Slot (command_queue) holds at most one command in every
\* reachable state.
SlotAtMostOne == Len(command_queue) <= 1

\* The slot is occupied and a later submission was turned away by it.
SlotAtMostOneWitness ==
    /\ Len(command_queue) = 1
    /\ \E c \in Submitted : hist[c].outcome = "dropped" /\ c > Head(command_queue)

\* C5: a submit that observes Busy places its command in the slot if the slot is
\* empty; if it is occupied the command is discarded, the occupant and the lock
\* state are unchanged, nothing is started and the caller gets the success response.
AdmissionWhileBusy ==
    [][(IsSubmitStep /\ locked) =>
          /\ command_queue' = IF command_queue = <<>>
                              THEN <<Len(hist')>> ELSE command_queue
          /\ hist'[Len(hist')].outcome =
                 IF command_queue = <<>> THEN "queued" ELSE "dropped"
          /\ locked' /\ task' = task /\ waiters' = waiters /\ ready' = ready
          /\ robot' = robot
          /\ response'.success]_vars

\* A submission was discarded while an earlier one still occupies the slot.
AdmissionWhileBusyWitness ==
    \E c \in Submitted :
        /\ hist[c].outcome = "dropped"
        /\ command_queue # <<>> /\ Head(command_queue) < c
        /\ hist[Head(command_queue)].outcome = "queued"

\* The safety half of the single-slot bound: the first of a burst occupies the
\* slot, the rest are dropped, and a dropped command is nowhere and never acts.
SingleSlotSafe ==
    /\ burst # <<>> =>
          /\ command_queue = <<burst[1]>>
          /\ hist[burst[1]].outcome = "queued"
          /\ \A i \in 2..Len(burst) : hist[burst[i]].outcome = "dropped"
    /\ \A c \in Submitted :
          hist[c].outcome = "dropped" =>
              /\ eff[c] = 0 /\ neu[c] = 0
              /\ \A t \in Ids : task[t].cmd # c
              /\ c \notin {command_queue[i] : i \in 1..Len(command_queue)}

\* C6: of the commands submitted while an execution is in flight, with no
\* completion in between and the slot empty at first, exactly the first is
\* retained in the slot, and it later executes; the others are dropped and the
\* effects of a dropped command never fire.  (hist[c] is never revised and
\* eff[c] never decreases, so "always eventually (queued => executed)" says
\* that a queued command is eventually executed.)
SingleSlotBound ==
    /\ []SingleSlotSafe
    /\ \A c \in Ids :
          []<>((c \in Submitted /\ hist[c].outcome = "queued") => eff[c] = 1)

\* Three commands were submitted during one execution; the first has since
\* executed and the other two never did.
SingleSlotBoundWitness ==
    /\ Len(hist) = 4
    /\ hist[2].outcome = "queued" /\ hist[3].outcome = "dropped"
    /\ hist[4].outcome = "dropped"
    /\ neu[1] = 1 /\ eff[2] = 1 /\ eff[3] = 0 /\ eff[4] = 0
    /\ burst = <<>>

\* From Idle, A was submitted and started, and B was submitted while A executed.
ScenarioAB ==
    /\ Len(hist) >= 2
    /\ hist[1].outcome = "started"
    /\ hist[2].outcome = "queued"

\* C7: from Idle, A is submitted and B is submitted while A executes.  B begins
\* only after A completed, begins and completes without any further request,
\* and the scheduler is not Idle before B has completed.  (The scenario, once
\* true, stays true, and eff and neu never decrease.)
DrainAfterCompletion ==
    /\ [](ScenarioAB => /\ eff[2] > 0 => neu[1] = 1
                        /\ neu[2] = 0 => locked)
    /\ []<>(ScenarioAB => eff[2] = 1)
    /\ []<>(ScenarioAB => neu[2] = 1)

\* B has run to completion in the flow that A's submit started.
DrainAfterCompletionWitness ==
    /\ ScenarioAB
    /\ neu[1] = 1 /\ neu[2] = 1
    /\ ~locked /\ task[1].pc = "done"

\* C8: when an execution completes while the slot is occupied, the lock is never
\* observed free before the drained command has finished: a command that went
\* through the slot and has not finished implies the lock is held.
NoIdleGapOnDrain ==
    \A c \in Submitted :
        (hist[c].outcome = "queued" /\ neu[c] = 0) => locked

\* The first three submissions are move-forward, turn-left, turn-right.
ScenarioE2E ==
    /\ Len(hist) >= 3
    /\ hist[1].kind = "move_forward"
    /\ hist[2].kind = "turn_left"
    /\ hist[3].kind = "turn_right"

\* C9: from Idle, move-forward, turn-left, turn-right, all issued before
\* move-forward completes: move-forward executes first, turn-left is queued and
\* executes second, turn-right is dropped and its effect never fires, and the
\* lock is free again only after turn-left's neutralizing effect.
EndToEndScenario ==
    /\ (ScenarioE2E /\ neu[1] = 0) =>
          /\ hist[1].outcome = "started"
          /\ hist[2].outcome = "queued"
          /\ hist[3].outcome = "dropped"
    /\ (ScenarioE2E /\ hist[2].outcome = "queued" /\ hist[3].outcome = "dropped") =>
          /\ eff[3] = 0
          /\ eff[2] > 0 => neu[1] = 1
          /\ (eff[1] > 0 /\ ~locked) => neu[2] = 1

\* C10: a submit that finds the scheduler Idle starts a background unit and
\* returns its response at once, the unit not yet having run; the unit then
\* acquires the lock and issues its physical effect without any further request.
\* (hist[c] is never revised and eff[c] never decreases.)
IdleAdmission ==
    /\ [][(IsSubmitStep /\ ~locked) =>
             LET c == Len(hist') IN
             /\ hist'[c].outcome = "started"
             /\ task'[c] = [pc |-> "created", cmd |-> c, hold |-> 0]
             /\ ready' = Append(ready, c)
             /\ eff'[c] = 0 /\ neu'[c] = 0
             /\ response'.success]_vars
    /\ \A c \in Ids :
          []<>((c \in Submitted /\ hist[c].outcome = "started") => eff[c] = 1)

\* The unit started by an Idle submit is holding the lock, its effect issued.
IdleAdmissionWitness ==
    \E c \in Submitted :
        /\ hist[c].outcome = "started"
        /\ task[c].pc = "sleeping" /\ task[c].cmd = c
        /\ eff[c] = 1 /\ locked

(***************************************************************************)
(* C20  No stranded command: in every state a handler can observe, an      *)
(* occupied Pending Slot implies that the execution lock is held.          *)
(***************************************************************************)
NoStrandedCommand == command_queue # <<>> => locked

\* The slot is occupied while one task holds the lock and another waits for it.
NoStrandedCommandWitness ==
    /\ command_queue # <<>>
    /\ locked
    /\ waiters # <<>>

\* Some submit request is still to be made.
SubmitsLeft == Len(hist) < env.submits

\* Every submit entry point can run to completion from the current state.
SubmitEnabled ==
    /\ ENABLED wave_hand
    /\ ENABLED move_forward
    /\ ENABLED move_backward
    /\ ENABLED turn_left
    /\ ENABLED turn_right

\* The submit step neither takes nor waits for the lock, and no execution advances.
SubmitReturnsAtOnce ==
    LET c == Len(hist') IN
    /\ locked' = locked
    /\ waiters' = waiters
    /\ task'[c].pc \in {"none", "created"}
    /\ \A t \in Ids \ {c} : task'[t] = task[t]
    /\ eff' = eff /\ neu' = neu
    /\ response' = hist'[c].response

(***************************************************************************)
(* C11  submit never blocks: in every state (Idle, Busy with empty slot,   *)
(* Busy with occupied slot) each submit call can be made and completes in  *)
(* its own step, without waiting for the lock, for the slot or for an      *)
(* execution to finish.                                                    *)
(***************************************************************************)
SubmitNeverBlocks ==
    /\ [](SubmitsLeft => SubmitEnabled)
    /\ [][IsSubmitStep => SubmitReturnsAtOnce]_vars

\* Submissions were made in each of the three scheduler states.
SubmitNeverBlocksWitness ==
    \E a, b, c \in Submitted :
        /\ hist[a].outcome = "started"
        /\ hist[b].outcome = "queued"
        /\ hist[c].outcome = "dropped"

\* What a cancel_wave_hand call leaves alone: lock, tasks, slot, progress of executions.
CancelFrame ==
    /\ locked' = locked
    /\ busy(St)' = busy(St)
    /\ waiters' = waiters
    /\ ready' = ready
    /\ task' = task
    /\ command_queue' = command_queue
    /\ eff' = eff /\ neu' = neu

(***************************************************************************)
(* C12  Cancel independence: in every state cancel_wave_hand can run, it   *)
(* issues the gripper-close driver call in its own step without taking     *)
(* the lock, and leaves busy(), the in-flight execution and the Pending    *)
(* Slot unchanged.                                                         *)
(***************************************************************************)
CancelIndependence ==
    /\ [](ENABLED cancel_wave_hand)
    /\ [][cancel_wave_hand => robot'.hand = "kHandClose" /\ CancelFrame]_vars

\* A cancel was served while a wave-hand execution was holding and the slot was occupied.
CancelIndependenceWitness ==
    /\ response = CommandResponse("cancel", 0)
    /\ locked
    /\ command_queue # <<>>
    /\ robot.hand = "kHandClose"
    /\ \E t \in Ids : /\ task[t].pc = "sleeping"
                      /\ hist[task[t].cmd].kind = "wave_hand"

\* A state without its log: lock, waiters, slot, tasks, robot, progress.
SchedulerView(s) == [s EXCEPT !.errlog = "none", !.rc = <<>>]

\* Whatever the driver returns, each step that calls it leaves the same
\* lock, slot, tasks and robot as the step in which every call returns 0.
FailureChangesOnlyLog ==
    /\ \A r \in env.results :
          SchedulerView(CancelResult(<<r>>)) = SchedulerView(CancelResult(<<0>>))
    /\ \A t \in Ids :
          (ready # <<>> /\ Head(ready) = t) =>
            /\ task[t].pc = "created" =>
                 \A r \in env.results :
                    SchedulerView(StartResult(t, <<r>>)) =
                    SchedulerView(StartResult(t, <<0>>))
            /\ task[t].pc = "woken" =>
                 \A r \in env.results :
                    SchedulerView(GrantResult(t, <<r>>)) =
                    SchedulerView(GrantResult(t, <<0>>))
            /\ task[t].pc = "elapsed" =>
                 \A r1, r2 \in env.results :
                    SchedulerView(FinishResult(t, <<r1, r2>>)) =
                    SchedulerView(FinishResult(t, <<0, 0>>))

\* A step that logs a failure returns nothing new to a submitting caller.
FailureNotPropagated ==
    /\ hist' = hist
    /\ response' = response \/ response' = CommandResponse("cancel", 0)

(***************************************************************************)
(* C13  Driver failure is non-fatal: when a driver call returns non-zero   *)
(* the failure is logged and nothing else differs: the execution still     *)
(* sleeps, neutralizes, releases and drains exactly as in the success      *)
(* case, and no error reaches the caller.                                  *)
(***************************************************************************)
DriverFailureNonFatal ==
    /\ []FailureChangesOnlyLog
    /\ [][errlog' # errlog => FailureNotPropagated]_vars

\* The effect of the first command failed; it and the queued second command
\* were still executed to the end and the lock was released.
DriverFailureNonFatalWitness ==
    /\ Len(hist) = 2
    /\ hist[1].kind = "wave_hand" /\ hist[2].kind = "move_forward"
    /\ hist[2].outcome = "queued"
    /\ errlog = EffectFailure("wave_hand")
    /\ neu[1] = 1 /\ neu[2] = 1
    /\ ~locked

\* Submissions that reached the commander.
Admitted == {c \in Submitted : hist[c].outcome \in {"started", "queued", "dropped"}}

Holding == {t \in Ids : task[t].pc \in {"sleeping", "elapsed"}}

(***************************************************************************)
(* C15  Gesture duration bounds (durations in tenths of a second): every   *)
(* wave-hand execution holds for the duration of its request, which lies   *)
(* between 0.1 s and 10 s and is 1.0 s when the request gives none; every  *)
(* movement execution holds for exactly 1 s.                               *)
(***************************************************************************)
DurationBounds ==
    /\ \A t \in Holding :
          IF hist[task[t].cmd].kind = "wave_hand"
          THEN /\ 1 <= task[t].hold /\ task[t].hold <= 100
               /\ task[t].hold = hist[task[t].cmd].response.seconds
          ELSE task[t].hold = 10
    /\ HoldDuration("wave_hand", DurationParameters(RequestDuration(NoWaveRequest))) = 10
    /\ HoldDuration("wave_hand", NoParameters) = 10

\* A wave-hand execution holds for the maximum duration after a request
\* with a duration out of range was made.
DurationBoundsWitness ==
    /\ \E t \in Holding : /\ hist[task[t].cmd].kind = "wave_hand"
                          /\ task[t].hold = 100
    /\ \E c \in Submitted : hist[c].outcome = "422"

\* The commands whose effect / neutralizing effect is performed by the step.
EffectedNow == {c \in Ids : eff'[c] # eff[c]}

NeutralizedNow == {c \in Ids : neu'[c] # neu[c]}

\* The effect is performed in the step that acquires the lock, and the hold
\* starts in that same step with the command's full duration; the lock is
\* taken from a free lock or in the step in which the previous holder
\* neutralized and released.
EffectAtAcquisition ==
    \A c \in EffectedNow :
        /\ locked'
        /\ \E t \in Ids : task'[t] = [pc |-> "sleeping", cmd |-> c,
                                      hold |-> HoldDuration(hist[c].kind,
                                                            hist[c].parameters)]
        /\ locked => NeutralizedNow # {}

\* A hold is left only by its timer, with the lock still held.
HoldRunsOut ==
    \A t \in Ids :
        (task[t].pc = "sleeping" /\ task'[t] # task[t]) =>
            /\ task'[t] = [task[t] EXCEPT !.pc = "elapsed"]
            /\ locked /\ locked'
            /\ NeutralizedNow = {}

\* The neutralizing effect follows the elapsed hold, inside the lock: zero
\* velocity for a movement, gripper close for the gesture.
NeutralizeAfterHold ==
    \A c \in NeutralizedNow :
        /\ locked
        /\ \E t \in Ids : task[t].pc = "elapsed" /\ task[t].cmd = c
        /\ LET r == Neutralize(St, c).robot IN
            /\ IF hist[c].kind = "wave_hand"
               THEN r.hand = "kHandClose" ELSE r.vel = <<0, 0, 0>>
            /\ EffectedNow = {} => robot' = r

\* The lock is released, and the slot is looked at, only by a step that
\* performs a neutralizing effect.
ReleaseThenSlotCheck ==
    /\ (locked /\ ~locked') => NeutralizedNow # {}
    /\ Len(command_queue') < Len(command_queue) => NeutralizedNow # {}

\* Requests served during a hold change neither the hold nor the lock.
HoldUninterrupted ==
    (IsSubmitStep \/ cancel_wave_hand \/ get_status) =>
        /\ locked' = locked
        /\ \A t \in Holding : task'[t] = task[t]
        /\ NeutralizedNow = {}

(***************************************************************************)
(* C16  Execution step order is fixed and uninterruptible: lock            *)
(* acquisition, physical effect, the full hold, the neutralizing effect    *)
(* (zero velocity or gripper close), lock release, and only then the       *)
(* Pending Slot check; no submit or cancel made during the hold shortens   *)
(* it or releases the lock earlier.                                        *)
(***************************************************************************)
ExecutionStepOrder ==
    [][/\ EffectAtAcquisition
       /\ HoldRunsOut
       /\ NeutralizeAfterHold
       /\ ReleaseThenSlotCheck
       /\ HoldUninterrupted]_vars

\* A wave-hand execution was cancelled and a command queued during its
\* hold; it has since neutralized and the queued command has started.
ExecutionStepOrderWitness ==
    /\ Len(hist) >= 2
    /\ hist[1].kind = "wave_hand"
    /\ hist[2].outcome = "queued"
    /\ response = CommandResponse("cancel", 0)
    /\ neu[1] = 1 /\ eff[2] = 1 /\ neu[2] = 0
    /\ locked

\* The step is made by a request handler (submit, cancel or status).
HandlerStep == IsSubmitStep \/ cancel_wave_hand \/ get_status

\* Idle -> Busy: a background execution acquires the lock and performs its effect.
BecomesBusy ==
    (~locked /\ locked') =>
        /\ EffectedNow # {}
        /\ \E t \in Ids : /\ task[t].pc \in {"created", "woken"}
                          /\ task'[t].pc = "sleeping"
        /\ hist' = hist /\ response' = response

\* Busy -> Idle: the execution holding the lock neutralizes and releases it.
BecomesIdle ==
    (locked /\ ~locked') =>
        /\ NeutralizedNow # {}
        /\ \E t \in Ids : task[t].pc = "elapsed" /\ task'[t].pc # "elapsed"
        /\ hist' = hist /\ response' = response

\* busy() answers the state of the lock and changes nothing.
StatusIsLockState ==
    get_status =>
        /\ response'.is_busy = locked
        /\ UNCHANGED <<locked, waiters, command_queue, ready, task, robot, eff, neu>>

(***************************************************************************)
(* C17  Only execution units change the Busy/Idle state: Idle->Busy only   *)
(* when a background execution acquires the lock, Busy->Idle only when it  *)
(* releases it; submit, cancel and status requests never change the lock,  *)
(* and the status is true iff the lock is held, without side effects.      *)
(***************************************************************************)
OnlyExecutionsChangeBusy ==
    [][/\ BecomesBusy
       /\ BecomesIdle
       /\ HandlerStep => locked' = locked
       /\ StatusIsLockState]_vars

\* The status was asked and answered busy with the slot occupied, after an
\* earlier execution had released the lock.
OnlyExecutionsChangeBusyWitness ==
    /\ "is_busy" \in DOMAIN response
    /\ response.is_busy
    /\ locked
    /\ command_queue # <<>>
    /\ \E c \in Ids : neu[c] = 1

\* The submit step reaches the commander (its request passed validation).
IsCommanderCall == IsSubmitStep /\ hist'[Len(hist')].outcome # "422"

(***************************************************************************)
(* C18  The admission algorithm applies identically to all five submit     *)
(* operations in both commanders: a submit invoked as the front-end        *)
(* invokes it raises no error and changes lock, tasks and slot exactly as  *)
(* the admission rule of BoosterT1Commander does, whichever commander is   *)
(* in use.                                                                 *)
(***************************************************************************)
AdmissionUniform ==
    [][IsCommanderCall =>
          LET c == Len(hist') IN
          /\ hist'[c].outcome \in {"started", "queued", "dropped"}
          /\ hist'[c].response.success
          /\ locked' = Admit(St, c).locked
          /\ command_queue' = Admit(St, c).command_queue
          /\ ready' = Admit(St, c).ready
          /\ task' = Admit(St, c).task]_vars

\* The flows that complete an execution in this step.
Completing == {t \in Ids : task[t].pc = "elapsed" /\ task[t].cmd \in NeutralizedNow}

\* The completing flow t takes the head of the slot and executes it itself,
\* from the lock acquisition: it holds the lock anew and has performed the
\* effect, or it waits for the lock, which it has released.
DrainsInSameFlow(t) ==
    LET c == Head(command_queue) IN
    /\ command_queue' = Tail(command_queue)
    /\ task'[t].cmd = c
    /\ \/ task'[t].pc = "sleeping" /\ locked' /\ eff'[c] = eff[c] + 1
       \/ /\ task'[t].pc = "waiting" /\ ~locked' /\ eff'[c] = eff[c]
          /\ waiters' # <<>> /\ waiters'[Len(waiters')] = t
    /\ task'[c] = task[c]

\* The slot is empty: the flow ends and nothing is started.
FlowEnds(t) ==
    /\ task'[t].pc = "done"
    /\ command_queue' = <<>>
    /\ EffectedNow = {}

(***************************************************************************)
(* C19  Each completed execution removes at most one command from the      *)
(* Pending Slot, after releasing the lock, and runs it through the full    *)
(* execution algorithm in the same background flow; with an empty slot     *)
(* the flow ends without starting anything.  Nothing else empties the slot.*)
(***************************************************************************)
DrainOnePerCompletion ==
    [][/\ Cardinality(Completing) <= 1
       /\ \A t \in Completing :
             IF command_queue # <<>> THEN DrainsInSameFlow(t) ELSE FlowEnds(t)
       /\ Len(command_queue') < Len(command_queue) => Completing # {}
       /\ Len(command_queue') >= Len(command_queue) - 1]_vars

\* One flow has ended on an empty slot; another one, having completed its
\* own command, is executing the command it removed from the slot.
DrainOnePerCompletionWitness ==
    \E t, u \in Ids :
        /\ task[t].pc = "done"
        /\ task[u].pc = "sleeping" /\ task[u].cmd # u
        /\ neu[u] = 1
        /\ hist[task[u].cmd].outcome = "queued"

\* Submissions that were started as a background task or placed in the slot.
NotDropped == {c \in Submitted : hist[c].outcome \in {"started", "queued"}}

\* No effect is issued twice, a neutralizing effect only after its effect,
\* and nothing is issued for a command that was dropped or never submitted.
AtMostOnce ==
    \A c \in Ids :
        /\ eff[c] <= 1 /\ neu[c] <= eff[c]
        /\ c \notin NotDropped => eff[c] = 0

(***************************************************************************)
(* C21  Exactly-once execution: every submitted command that is not        *)
(* dropped has its physical effect issued exactly once and its             *)
(* neutralizing effect issued exactly once; none is executed twice and,    *)
(* under fair scheduling, none is lost.                                    *)
(***************************************************************************)
ExactlyOnce ==
    /\ []AtMostOnce
    /\ \A c \in Ids : []<>(c \in NotDropped => (eff[c] = 1 /\ neu[c] = 1))

\* Four submissions, one of them dropped; the three others, started and
\* queued, have been executed to the end.
ExactlyOnceWitness ==
    /\ Len(hist) = MaxSubmits
    /\ \E c \in Submitted : hist[c].outcome = "dropped"
    /\ \E c \in Submitted : hist[c].outcome = "queued"
    /\ \A c \in NotDropped : eff[c] = 1 /\ neu[c] = 1
    /\ Cardinality(NotDropped) = MaxSubmits - 1

(***************************************************************************)
(* C22  Submission order is preserved: a command submitted later has       *)
(* begun its physical effect only if every non-dropped command submitted   *)
(* earlier has begun its own.                                              *)
(***************************************************************************)
SubmissionOrderPreserved ==
    \A a, b \in NotDropped : (a < b /\ eff[b] = 1) => eff[a] = 1

\* Two commands were started from Idle one after the other and a third was
\* queued: the first is over, the second is executing, and the third, taken
\* from the slot by the first one's flow, waits for the lock behind it.
SubmissionOrderPreservedWitness ==
    \E a, b, c \in NotDropped :
        /\ a < b /\ b < c
        /\ hist[a].outcome = "started" /\ hist[b].outcome = "started"
        /\ hist[c].outcome = "queued"
        /\ neu[a] = 1 /\ eff[b] = 1 /\ neu[b] = 0 /\ eff[c] = 0
        /\ task[a].cmd = c /\ task[a].pc = "waiting"

\* The lock is free, the slot is empty and no background task exists that
\* has not ended: none created, waiting, woken or in its hold.
Quiescent ==
    /\ ~locked
    /\ command_queue = <<>>
    /\ waiters = <<>> /\ ready = <<>>
    /\ \A t \in Ids : task[t].pc \in {"none", "done"}

(***************************************************************************)
(* C23  Quiescence: after any finite sequence of submit and cancel calls,  *)
(* with the event loop and the timers fair, the scheduler eventually       *)
(* reaches and stays in a state where the lock is free, the slot is empty  *)
(* and no execution is waiting or running.                                 *)
(***************************************************************************)
Quiescence == <>[]Quiescent

\* All submissions were made, one queued and one dropped among them, a
\* cancel call was served, and the scheduler has come to rest.
QuiescenceWitness ==
    /\ Quiescent
    /\ Len(hist) = MaxSubmits
    /\ \E c \in Submitted : hist[c].outcome = "queued"
    /\ \E c \in Submitted : hist[c].outcome = "dropped"
    /\ response = CommandResponse("cancel", 0)

\* The last command the driver received on each channel, if any, is the
\* neutral one: zero velocity, gripper closed.
AtRest ==
    /\ robot.vel # "none" => robot.vel = <<0, 0, 0>>
    /\ robot.hand # "none" => robot.hand = "kHandClose"

(***************************************************************************)
(* C24  At rest whenever idle: in every reachable state where the lock is  *)
(* not held, the most recent velocity command issued to the driver (if     *)
(* any) is zero velocity and the most recent gripper command (if any) is   *)
(* close.                                                                  *)
(***************************************************************************)
AtRestWhenIdle == ~locked => AtRest

\* The lock is free after a movement and a gesture have both been executed
\* to the end while another task is still waiting to run.
AtRestWhenIdleWitness ==
    /\ ~locked
    /\ robot.vel # "none" /\ robot.hand # "none"
    /\ AtRest
    /\ \E a, b \in Submitted :
          /\ hist[a].kind = "wave_hand" /\ neu[a] = 1
          /\ hist[b].kind # "wave_hand" /\ neu[b] = 1
    /\ ready # <<>>

\* The get_robot_commander calls that have returned.
Returned_get == {k \in Calls : /\ factory.call[k].op = "get_robot_commander"
                               /\ factory.call[k].pc = "done"}

(***************************************************************************)
(* C25  Single shared commander: once a commander has been selected it is  *)
(* never replaced by a repeated selection of the same kind, and every      *)
(* get_robot_commander call returns that one instance, so that all         *)
(* requests share one lock and one slot.                                   *)
(***************************************************************************)
SingleSharedCommander ==
    /\ factory.made <= 1
    /\ \A j, k \in Returned_get : factory.call[j].result = factory.call[k].result

====
